---- MODULE Spec2Model ----
(***************************************************************************)
(* Needs-based insurance recommendation engine                              *)
(* (app/recommendation/needs_engine.py).                                    *)
(*                                                                          *)
(* recommend_policies(profile) walks five policy blocks in a fixed order    *)
(* and appends one recommendation per block whose guard holds.  The model   *)
(* keeps the profile, the position in the function (pc), the list built so  *)
(* far, the personalised reasons computed once at entry, and the frame of   *)
(* the latest calculate_confidence call (its policy_type argument and the   *)
(* value bound to the local `confidence`).                                  *)
(*                                                                          *)
(* Units: monthly_income and recommended_cover are whole rand; every        *)
(* estimated_monthly_premium is held in cents, i.e. the value of            *)
(* round(x, 2) multiplied by 100.  Percentages such as 0.0015 are held as   *)
(* the fraction 15/10000, so cover * 0.0015 is cover * 15 / 100 cents.      *)
(***************************************************************************)
EXTENDS Integers, Sequences, FiniteSets

VARIABLES profile, pc, recommendations, personalised_reasons, confidence, policy_type

vars == <<profile, pc, recommendations, personalised_reasons, confidence, policy_type>>

(***************************************************************************)
(* Bounds of the explored inputs.                                           *)
(***************************************************************************)
MaxDelta == 1
MaxDependants == 2

\* Every income the code compares against, each with its neighbours.
IncomeThresholds == {0, 10000, 15000, 20000, 30000}
Incomes == {t + d : t \in IncomeThresholds, d \in (0 - MaxDelta)..MaxDelta}

\* Every age the code compares against, each with its neighbours.
AgeThresholds == {25, 40}
Ages == {t + d : t \in AgeThresholds, d \in (0 - MaxDelta)..MaxDelta}

Dependants == (0 - 1)..MaxDependants

ProfileKeys == {"age", "monthly_income", "dependants", "owns_car", "owns_home"}

FullProfiles ==
    [age : Ages, monthly_income : Incomes, dependants : Dependants,
     owns_car : BOOLEAN, owns_home : BOOLEAN]

\* Numeric keys a caller's dict may lack.
MissingChoices == {{}, {"monthly_income"}, {"dependants"}, {"monthly_income", "dependants"}}

Profiles ==
    {[k \in ProfileKeys \ missing |-> full[k]] : full \in FullProfiles, missing \in MissingChoices}

PolicyTypes ==
    {"Life Insurance", "Funeral Cover", "Accidental Cover", "Vehicle Insurance",
     "Home & Contents Insurance"}

Min(a, b) == IF a <= b THEN a ELSE b

(***************************************************************************)
(* round(x, 2) in cents, for x * 100 = num / den: the nearest cent, a tie   *)
(* going to the even cent.                                                  *)
(***************************************************************************)
Round2(num, den) ==
    LET q == num \div den
        r == num % den
    IN  IF 2 * r > den THEN q + 1
        ELSE IF 2 * r < den THEN q
        ELSE IF q % 2 = 0 THEN q ELSE q + 1

resolve_provider(ptype) ==
    CASE ptype = "Life Insurance" -> "Sanlam"
      [] ptype = "Funeral Cover" -> "AVBOB"
      [] ptype = "Accidental Cover" -> "Old Mutual"
      [] ptype = "Vehicle Insurance" -> "OUTsurance"
      [] ptype = "Home & Contents Insurance" -> "Santam"
      [] OTHER -> "Insurance Provider"


(***************************************************************************)
(* calculate_confidence: base 50, one if/elif branch per policy type, then  *)
(* min(score, 100).                                                         *)
(***************************************************************************)
\* Variant: the bonus grows with every dependant and the final clamp is lost.
calculate_confidence_per_dependant(p, ptype) ==
    LET income == p.monthly_income
        dependants == p.dependants
        bonus ==
            CASE ptype = "Life Insurance" ->
                    (IF dependants > 0 THEN 30 * dependants ELSE 0)
                    + (IF income >= 15000 THEN 10 ELSE 0)
              [] ptype = "Funeral Cover" ->
                    30 + (IF dependants > 0 THEN 10 ELSE 0)
              [] ptype = "Accidental Cover" ->
                    (IF income > 0 THEN 25 ELSE 0)
              [] ptype = "Vehicle Insurance" ->
                    (IF p.owns_car THEN 40 ELSE 0)
              [] ptype = "Home & Contents Insurance" ->
                    (IF p.owns_home THEN 35 ELSE 0)
                    + (IF income >= 20000 THEN 5 ELSE 0)
              [] OTHER -> 0
    IN  50 + bonus

\* Variant: the Home & Contents income bonus needs strictly more than 20000.
calculate_confidence_strict_income(p, ptype) ==
    LET income == p.monthly_income
        dependants == p.dependants
        bonus ==
            CASE ptype = "Life Insurance" ->
                    (IF dependants > 0 THEN 30 ELSE 0)
                    + (IF income >= 15000 THEN 10 ELSE 0)
              [] ptype = "Funeral Cover" ->
                    30 + (IF dependants > 0 THEN 10 ELSE 0)
              [] ptype = "Accidental Cover" ->
                    (IF income > 0 THEN 25 ELSE 0)
              [] ptype = "Vehicle Insurance" ->
                    (IF p.owns_car THEN 40 ELSE 0)
              [] ptype = "Home & Contents Insurance" ->
                    (IF p.owns_home THEN 35 ELSE 0)
                    + (IF income > 20000 THEN 5 ELSE 0)
              [] OTHER -> 0
    IN  Min(50 + bonus, 100)

calculate_confidence(p, ptype) ==
    LET income == p.monthly_income
        dependants == p.dependants
        owns_car == p.owns_car
        owns_home == p.owns_home
        bonus ==
            CASE ptype = "Life Insurance" ->
                    (IF dependants > 0 THEN 30 ELSE 0)
                    + (IF income >= 15000 THEN 10 ELSE 0)
              [] ptype = "Funeral Cover" ->
                    30 + (IF dependants > 0 THEN 10 ELSE 0)
              [] ptype = "Accidental Cover" ->
                    (IF income > 0 THEN 25 ELSE 0)
              [] ptype = "Vehicle Insurance" ->
                    (IF owns_car THEN 40 ELSE 0)
              [] ptype = "Home & Contents Insurance" ->
                    (IF owns_home THEN 35 ELSE 0)
                    + (IF income >= 20000 THEN 5 ELSE 0)
              [] OTHER -> 0
    IN  Min(50 + bonus, 100)

\* Variant: the "best" threshold is exclusive.
derive_priority_band_exclusive(confidence_score) ==
    IF confidence_score > 85 THEN "best"
    ELSE IF confidence_score >= 70 THEN "medium"
    ELSE "optional"

derive_priority_band(confidence_score) ==
    IF confidence_score >= 85 THEN "best"
    ELSE IF confidence_score >= 70 THEN "medium"
    ELSE "optional"

personalise_why_it_matters(p) ==
    LET age == p.age
        income == p.monthly_income
        age_reason ==
            IF age <= 25 THEN "Well suited to your age group"
            ELSE IF 26 <= age /\ age <= 40 THEN "Relevant for your current life stage"
            ELSE "Important protection as responsibilities grow"
        budget_reason ==
            IF income <= 10000 THEN "Designed to fit a tight budget"
            ELSE IF income <= 30000 THEN "Fits comfortably within your budget"
            ELSE "Provides strong cover without straining your budget"
    IN  <<age_reason, budget_reason>>

annual_income(p) == p.monthly_income * 12

(***************************************************************************)
(* The five blocks of recommend_policies: guard, cover, premium, record.    *)
(***************************************************************************)
\* Variant: Life Insurance is offered to a profile without dependants.
LifeApplies_nonnegative(p) == p.dependants >= 0

LifeApplies(p) == p.dependants > 0

\* Variant: the cover is taken from the monthly income, not the annual one.
LifeCover_monthly(p) == p.monthly_income * 10

LifeCover(p) == annual_income(p) * 10

LifePremium(p) == Round2(LifeCover(p) * 15, 100)

LifeRecommendation(p, conf, reasons) ==
    [policy_type |-> "Life Insurance",
     provider_name |-> resolve_provider("Life Insurance"),
     confidence_score |-> conf,
     priority_band |-> derive_priority_band(conf),
     recommended_cover |-> LifeCover(p),
     estimated_monthly_premium |-> LifePremium(p),
     best_for |-> <<"People with dependants", "Households relying on a main income">>,
     why_it_matters |-> <<"Provides long-term financial protection",
                          "Helps cover living costs, debt, and education">> \o reasons]

\* Variant: Funeral Cover is only offered to a profile with dependants.
FuneralApplies_dependants(p) == p.dependants > 0

FuneralApplies(p) == TRUE

FuneralCover(p) == 50000 + (p.dependants * 25000)

FuneralPremium(p) == Round2(FuneralCover(p) * 2, 10)

FuneralRecommendation(p, conf, reasons) ==
    [policy_type |-> "Funeral Cover",
     provider_name |-> resolve_provider("Funeral Cover"),
     confidence_score |-> conf,
     priority_band |-> derive_priority_band(conf),
     recommended_cover |-> FuneralCover(p),
     estimated_monthly_premium |-> FuneralPremium(p),
     best_for |-> <<"All households", "Families with dependants">>,
     why_it_matters |-> <<"Covers immediate funeral expenses",
                          "Pays out quickly when cash is needed">> \o reasons]

\* Variant: Accidental Cover is offered at an income of zero.
AccidentalApplies_nonnegative(p) == p.monthly_income >= 0

AccidentalApplies(p) == p.monthly_income > 0

AccidentalCover(p) == annual_income(p) * 5

AccidentalPremium(p) == Round2(AccidentalCover(p) * 2, 10)

AccidentalRecommendation(p, conf, reasons) ==
    [policy_type |-> "Accidental Cover",
     provider_name |-> resolve_provider("Accidental Cover"),
     confidence_score |-> conf,
     priority_band |-> derive_priority_band(conf),
     recommended_cover |-> AccidentalCover(p),
     estimated_monthly_premium |-> AccidentalPremium(p),
     best_for |-> <<"Young professionals", "Active individuals">>,
     why_it_matters |-> <<"Covers accidental injury and disability",
                          "Protects your income if you cannot work">> \o reasons]

VehicleApplies(p) == p.owns_car

\* Variant: the Home & Contents rate pasted into the vehicle block.
VehiclePremium_home_rate(p) == Round2(p.monthly_income * 2, 1)

VehiclePremium(p) == Round2(p.monthly_income * 3, 1)

VehicleRecommendation(p, conf, reasons) ==
    [policy_type |-> "Vehicle Insurance",
     provider_name |-> resolve_provider("Vehicle Insurance"),
     confidence_score |-> conf,
     priority_band |-> derive_priority_band(conf),
     recommended_cover |-> "Market value of the vehicle",
     estimated_monthly_premium |-> VehiclePremium(p),
     best_for |-> <<"Vehicle owners", "Daily commuters">>,
     why_it_matters |-> <<"Protects against accidents and theft",
                          "Avoids large, unexpected repair costs">> \o reasons]

HomeApplies(p) == p.owns_home

HomePremium(p) == Round2(p.monthly_income * 2, 1)

HomeRecommendation(p, conf, reasons) ==
    [policy_type |-> "Home & Contents Insurance",
     provider_name |-> resolve_provider("Home & Contents Insurance"),
     confidence_score |-> conf,
     priority_band |-> derive_priority_band(conf),
     recommended_cover |-> "Replacement value of home and contents",
     estimated_monthly_premium |-> HomePremium(p),
     best_for |-> <<"Homeowners", "Property investors">>,
     why_it_matters |-> <<"Protects your home and belongings",
                          "Safeguards your biggest financial asset">> \o reasons]

\* Variant: a new recommendation is put at the head of the list.
AppendRecommendation_front(recs, rec) == <<rec>> \o recs

\* recommendations.append(...)
AppendRecommendation(recs, rec) == Append(recs, rec)


(***************************************************************************)
(* recommend_policies as a function of the profile: the list the five       *)
(* blocks build, in block order.                                            *)
(***************************************************************************)
recommend_policies(p) ==
    LET reasons == personalise_why_it_matters(p)
        r0 == <<>>
        r1 == IF LifeApplies(p)
              THEN AppendRecommendation(r0,
                       LifeRecommendation(p, calculate_confidence(p, "Life Insurance"), reasons))
              ELSE r0
        r2 == IF FuneralApplies(p)
              THEN AppendRecommendation(r1,
                       FuneralRecommendation(p, calculate_confidence(p, "Funeral Cover"), reasons))
              ELSE r1
        r3 == IF AccidentalApplies(p)
              THEN AppendRecommendation(r2,
                       AccidentalRecommendation(p, calculate_confidence(p, "Accidental Cover"),
                                                reasons))
              ELSE r2
        r4 == IF VehicleApplies(p)
              THEN AppendRecommendation(r3,
                       VehicleRecommendation(p, calculate_confidence(p, "Vehicle Insurance"),
                                             reasons))
              ELSE r3
        r5 == IF HomeApplies(p)
              THEN AppendRecommendation(r4,
                       HomeRecommendation(p,
                           calculate_confidence(p, "Home & Contents Insurance"), reasons))
              ELSE r4
    IN  r5

(***************************************************************************)
(* The state machine of one call recommend_policies(profile).               *)
(***************************************************************************)
Init ==
    /\ profile \in Profiles
    /\ pc = "start"
    /\ recommendations = <<>>
    /\ personalised_reasons = <<>>
    /\ confidence = 0
    /\ policy_type = ""

\* Lines 111-117.  profile["monthly_income"] and profile["dependants"] raise
\* KeyError when the key is absent; otherwise the reasons are computed once.
Start ==
    /\ pc = "start"
    /\ IF {"monthly_income", "dependants"} \subseteq DOMAIN profile
       THEN /\ personalised_reasons' = personalise_why_it_matters(profile)
            /\ pc' = "life"
       ELSE /\ pc' = "raised"
            /\ UNCHANGED personalised_reasons
    /\ UNCHANGED <<profile, recommendations, confidence, policy_type>>

Life ==
    /\ pc = "life"
    /\ IF LifeApplies(profile)
       THEN /\ policy_type' = "Life Insurance"
            /\ confidence' = calculate_confidence(profile, "Life Insurance")
            /\ recommendations' =
                   AppendRecommendation(recommendations,
                       LifeRecommendation(profile, confidence', personalised_reasons))
       ELSE UNCHANGED <<policy_type, confidence, recommendations>>
    /\ pc' = "funeral"
    /\ UNCHANGED <<profile, personalised_reasons>>

Funeral ==
    /\ pc = "funeral"
    /\ IF FuneralApplies(profile)
       THEN /\ policy_type' = "Funeral Cover"
            /\ confidence' = calculate_confidence(profile, "Funeral Cover")
            /\ recommendations' =
                   AppendRecommendation(recommendations,
                       FuneralRecommendation(profile, confidence', personalised_reasons))
       ELSE UNCHANGED <<policy_type, confidence, recommendations>>
    /\ pc' = "accidental"
    /\ UNCHANGED <<profile, personalised_reasons>>

Accidental ==
    /\ pc = "accidental"
    /\ IF AccidentalApplies(profile)
       THEN /\ policy_type' = "Accidental Cover"
            /\ confidence' = calculate_confidence(profile, "Accidental Cover")
            /\ recommendations' =
                   AppendRecommendation(recommendations,
                       AccidentalRecommendation(profile, confidence', personalised_reasons))
       ELSE UNCHANGED <<policy_type, confidence, recommendations>>
    /\ pc' = "vehicle"
    /\ UNCHANGED <<profile, personalised_reasons>>

Vehicle ==
    /\ pc = "vehicle"
    /\ IF VehicleApplies(profile)
       THEN /\ policy_type' = "Vehicle Insurance"
            /\ confidence' = calculate_confidence(profile, "Vehicle Insurance")
            /\ recommendations' =
                   AppendRecommendation(recommendations,
                       VehicleRecommendation(profile, confidence', personalised_reasons))
       ELSE UNCHANGED <<policy_type, confidence, recommendations>>
    /\ pc' = "home"
    /\ UNCHANGED <<profile, personalised_reasons>>

\* The last block, then `return recommendations`.
Home ==
    /\ pc = "home"
    /\ IF HomeApplies(profile)
       THEN /\ policy_type' = "Home & Contents Insurance"
            /\ confidence' = calculate_confidence(profile, "Home & Contents Insurance")
            /\ recommendations' =
                   AppendRecommendation(recommendations,
                       HomeRecommendation(profile, confidence', personalised_reasons))
       ELSE UNCHANGED <<policy_type, confidence, recommendations>>
    /\ pc' = "done"
    /\ UNCHANGED <<profile, personalised_reasons>>

Next == Start \/ Life \/ Funeral \/ Accidental \/ Vehicle \/ Home

Spec == Init /\ [][Next]_vars

(***************************************************************************)
(* calculate_confidence on its own: any profile with every key present,     *)
(* any of the five built-in policy types.                                   *)
(***************************************************************************)
InitCalc ==
    /\ profile \in FullProfiles
    /\ pc = "calc"
    /\ recommendations = <<>>
    /\ personalised_reasons = <<>>
    /\ confidence = 0
    /\ policy_type = ""

CallCalculateConfidence ==
    /\ pc = "calc"
    /\ \E t \in PolicyTypes :
          /\ policy_type' = t
          /\ confidence' = calculate_confidence(profile, t)
    /\ pc' = "calc_done"
    /\ UNCHANGED <<profile, recommendations, personalised_reasons>>

NextCalc == CallCalculateConfidence

SpecCalc == InitCalc /\ [][NextCalc]_vars

\* The model's two views of recommend_policies agree.
StepwiseMatchesFunction ==
    pc = "done" => recommendations = recommend_policies(profile)


(***************************************************************************)
(* Properties.                                                              *)
(***************************************************************************)
Indices == 1..Len(recommendations)

HasPolicy(recs, t) == \E i \in 1..Len(recs) : recs[i].policy_type = t

PolicyTypesOf(recs) == [i \in 1..Len(recs) |-> recs[i].policy_type]

EvaluationOrder ==
    <<"Life Insurance", "Funeral Cover", "Accidental Cover", "Vehicle Insurance",
      "Home & Contents Insurance">>

Position(t) == CHOOSE i \in 1..Len(EvaluationOrder) : EvaluationOrder[i] = t

\* C1: every recommendation in the list carries a confidence_score that is an
\* integer between 0 and 100, for every profile.
C1_ConfidenceInRange ==
    \A i \in Indices : recommendations[i].confidence_score \in 0..100

C1_Witness ==
    /\ pc = "done"
    /\ Len(recommendations) = 5
    /\ \E i \in Indices : recommendations[i].confidence_score = 90
    /\ \E i \in Indices : recommendations[i].confidence_score = 75

\* C2: in the returned list a policy is present exactly when its eligibility
\* condition holds (Life iff dependants > 0, Accidental iff monthly_income > 0,
\* Vehicle iff owns_car, Home & Contents iff owns_home); with every condition
\* unmet the list is Funeral Cover alone.
C2_PresentIffEligible ==
    pc = "done" =>
        /\ HasPolicy(recommendations, "Life Insurance") <=> profile.dependants > 0
        /\ HasPolicy(recommendations, "Accidental Cover") <=> profile.monthly_income > 0
        /\ HasPolicy(recommendations, "Vehicle Insurance") <=> profile.owns_car
        /\ HasPolicy(recommendations, "Home & Contents Insurance") <=> profile.owns_home
        /\ (/\ profile.dependants = 0
            /\ profile.monthly_income = 0
            /\ ~profile.owns_car
            /\ ~profile.owns_home)
           => PolicyTypesOf(recommendations) = <<"Funeral Cover">>

C2_Witness ==
    /\ pc = "done"
    /\ profile.dependants = 0
    /\ profile.monthly_income = 0
    /\ ~profile.owns_car
    /\ ~profile.owns_home
    /\ PolicyTypesOf(recommendations) = <<"Funeral Cover">>

\* C3: the returned list always contains Funeral Cover, so it is never empty.
C3_FuneralAlwaysPresent ==
    pc = "done" =>
        /\ HasPolicy(recommendations, "Funeral Cover")
        /\ Len(recommendations) >= 1

C3_Witness ==
    /\ pc = "done"
    /\ profile.dependants <= 0
    /\ profile.monthly_income <= 0
    /\ ~profile.owns_car
    /\ ~profile.owns_home
    /\ Len(recommendations) = 1
    /\ recommendations[1].policy_type = "Funeral Cover"

\* C4: the policy types of the list follow the fixed evaluation order (Life,
\* Funeral, Accidental, Vehicle, Home & Contents) without repeats, whatever the
\* confidence scores are.
C4_EvaluationOrderKept ==
    \A i, j \in Indices :
        i < j => Position(recommendations[i].policy_type)
                     < Position(recommendations[j].policy_type)

\* A lower-confidence entry precedes a higher-confidence one.
C4_Witness ==
    /\ pc = "done"
    /\ Len(recommendations) = 5
    /\ \E i, j \in Indices :
          /\ i < j
          /\ recommendations[i].confidence_score < recommendations[j].confidence_score

\* C5: calculate_confidence returns min(100, 50 + bonuses), the bonuses being
\* Life +30 if dependants > 0 and +10 if income >= 15000; Funeral +30 and +10 if
\* dependants > 0; Accidental +25 if income > 0; Vehicle +40 if owns_car; Home &
\* Contents +35 if owns_home and +5 if income >= 20000.
C5_Bonus(t, cond, amount) == IF policy_type = t /\ cond THEN amount ELSE 0

C5_ConfidenceFormula ==
    pc = "calc_done" =>
        confidence =
            Min(100,
                50
                + C5_Bonus("Life Insurance", profile.dependants > 0, 30)
                + C5_Bonus("Life Insurance", profile.monthly_income >= 15000, 10)
                + C5_Bonus("Funeral Cover", TRUE, 30)
                + C5_Bonus("Funeral Cover", profile.dependants > 0, 10)
                + C5_Bonus("Accidental Cover", profile.monthly_income > 0, 25)
                + C5_Bonus("Vehicle Insurance", profile.owns_car, 40)
                + C5_Bonus("Home & Contents Insurance", profile.owns_home, 35)
                + C5_Bonus("Home & Contents Insurance", profile.monthly_income >= 20000, 5))

C5_Witness ==
    /\ pc = "calc_done"
    /\ policy_type = "Home & Contents Insurance"
    /\ profile.owns_home
    /\ profile.monthly_income = 20000
    /\ confidence = 90

\* C6: in every recommendation the priority_band follows from its own
\* confidence_score: "best" iff >= 85, "medium" iff 70..84, "optional" iff < 70.
C6_BandFromConfidence ==
    \A i \in Indices :
        LET r == recommendations[i]
        IN  /\ r.priority_band = "best" <=> r.confidence_score >= 85
            /\ r.priority_band = "medium" <=>
                   (70 <= r.confidence_score /\ r.confidence_score < 85)
            /\ r.priority_band = "optional" <=> r.confidence_score < 70

C6_Witness ==
    /\ pc = "done"
    /\ \E i \in Indices :
          /\ recommendations[i].confidence_score = 85
          /\ recommendations[i].priority_band = "best"
    /\ \E i \in Indices :
          /\ recommendations[i].confidence_score = 80
          /\ recommendations[i].priority_band = "medium"

\* C7: for a non-negative monthly_income and dependants, Life cover is
\* monthly_income * 12 * 10, Accidental cover is monthly_income * 12 * 5 and
\* Funeral cover is 50000 + dependants * 25000.
C7_CoverAmounts ==
    (pc = "done" /\ profile.monthly_income >= 0 /\ profile.dependants >= 0) =>
        \A i \in Indices :
            LET r == recommendations[i]
            IN  /\ r.policy_type = "Life Insurance" =>
                       r.recommended_cover = profile.monthly_income * 12 * 10
                /\ r.policy_type = "Accidental Cover" =>
                       r.recommended_cover = profile.monthly_income * 12 * 5
                /\ r.policy_type = "Funeral Cover" =>
                       r.recommended_cover = 50000 + profile.dependants * 25000

C7_Witness ==
    /\ pc = "done"
    /\ profile.monthly_income = 20000
    /\ profile.dependants = 2
    /\ \E i \in Indices :
          /\ recommendations[i].policy_type = "Life Insurance"
          /\ recommendations[i].recommended_cover = 2400000
    /\ \E i \in Indices :
          /\ recommendations[i].policy_type = "Funeral Cover"
          /\ recommendations[i].recommended_cover = 100000
    /\ \E i \in Indices :
          /\ recommendations[i].policy_type = "Accidental Cover"
          /\ recommendations[i].recommended_cover = 1200000


\* The premium recommend_policies(q) gives for policy type t (t is present).
PremiumFor(q, t) ==
    LET recs == recommend_policies(q)
        i == CHOOSE k \in 1..Len(recs) : recs[k].policy_type = t
    IN  recs[i].estimated_monthly_premium

\* The current profile with every other monthly income of the explored range.
OtherIncomeProfiles == {[profile EXCEPT !.monthly_income = m] : m \in Incomes}

\* The premium of a policy type does not depend on the profile's income.
PremiumIsFixed(r) ==
    \A q \in OtherIncomeProfiles :
        HasPolicy(recommend_policies(q), r.policy_type) =>
            PremiumFor(q, r.policy_type) = r.estimated_monthly_premium

NumericCoverTypes == {"Life Insurance", "Funeral Cover", "Accidental Cover"}

\* round(recommended_cover * rate, 2) with the rate of the block: 0.0015 for
\* Life Insurance, 0.002 for Funeral Cover and Accidental Cover.
PremiumFromCover(r) ==
    IF r.policy_type = "Life Insurance"
    THEN Round2(r.recommended_cover * 15, 100)
    ELSE Round2(r.recommended_cover * 2, 10)

AsZero(p) ==
    [k \in ProfileKeys |->
        IF k \in {"monthly_income", "dependants"}
        THEN (IF k \in DOMAIN p THEN (IF p[k] >= 0 THEN p[k] ELSE 0) ELSE 0)
        ELSE p[k]]

\* C9: with a negative or missing monthly_income or dependants the call does not
\* raise and returns the list of the profile with that field replaced by 0; no
\* recommended_cover or premium is negative.
C9_NegativeOrMissingAsZero ==
    pc \in {"done", "raised"} =>
        /\ pc = "done"
        /\ recommendations = recommend_policies(AsZero(profile))
        /\ \A i \in Indices :
              /\ recommendations[i].estimated_monthly_premium >= 0
              /\ recommendations[i].policy_type \in NumericCoverTypes =>
                     recommendations[i].recommended_cover >= 0

\* C10: every recommendation returned has confidence_score >= 75 (Life and
\* Funeral 80 or 90, Accidental 75, Vehicle 90, Home & Contents 85 or 90), so
\* "optional" never occurs, Vehicle and Home & Contents are always "best" and
\* Accidental Cover is always "medium".
C10_ReturnedConfidenceAtLeast75 ==
    \A i \in Indices :
        LET r == recommendations[i]
        IN  /\ r.confidence_score >= 75
            /\ r.priority_band # "optional"
            /\ r.policy_type \in {"Life Insurance", "Funeral Cover"} =>
                   r.confidence_score \in {80, 90}
            /\ r.policy_type = "Accidental Cover" =>
                   (r.confidence_score = 75 /\ r.priority_band = "medium")
            /\ r.policy_type = "Vehicle Insurance" =>
                   (r.confidence_score = 90 /\ r.priority_band = "best")
            /\ r.policy_type = "Home & Contents Insurance" =>
                   (r.confidence_score \in {85, 90} /\ r.priority_band = "best")

C10_Witness ==
    /\ pc = "done"
    /\ Len(recommendations) = 5
    /\ recommendations[1].confidence_score = 80
    /\ recommendations[2].confidence_score = 90
    /\ recommendations[3].confidence_score = 75
    /\ recommendations[4].confidence_score = 90
    /\ recommendations[5].confidence_score = 85

====
